---------------------------- MODULE Spec2Model ----------------------------
(***************************************************************************)
(* CLooG constraint layer, isl backend (source/isl/constraints.c) and the  *)
(* stride descriptor (include/cloog/stride.h).                             *)
(*                                                                         *)
(* Five components, each with its own specification:                       *)
(*   SpecType   - cloog_constraint_equal_type, the classification scan     *)
(*   Spec       - the equality table (cloog_equal_alloc/add/del/free/...)  *)
(*   SpecIneq   - cloog_constraint_set_defining_inequalities               *)
(*   SpecCopy   - cloog_constraint_copy_coefficients                       *)
(*   SpecStride - the reference-counted CloogStride                        *)
(*                                                                         *)
(* A constraint (one row of an isl_basic_set) is a record                  *)
(*   [param, dim, div : sequences of integers, const : integer,           *)
(*    eq : BOOLEAN].                                                       *)
(* C arrays are 0-based; sequences here are 1-based, so the C index i is   *)
(* the sequence index i+1.                                                 *)
(***************************************************************************)
EXTENDS Integers, Sequences, FiniteSets, TLC

(***************************************************************************)
(* Bounds of the model.                                                    *)
(***************************************************************************)
NbDim == 2
NbParam == 1
NbDiv == 1
\* How many isl_basic_sets the equality table may allocate in one run.
MaxAllocs == 2
\* How many rows a constraint set searched for a defining pair may hold.
MaxRows == 3
\* How many holders a stride descriptor may have at once.
MaxRefs == 4

\* Coefficient values: zero, the two units, and a non-unit.
Coefs == {-1, 0, 1, 2}
\* Constant terms.
ConstVals == {-13, 0, 1}

(***************************************************************************)
(* Equality types (EQTYPE_* of pprint.h, used at constraints.c:133,        *)
(* 183-227).                                                               *)
(***************************************************************************)
EQTYPE_NONE == "EQTYPE_NONE"
EQTYPE_CONSTANT == "EQTYPE_CONSTANT"
EQTYPE_PUREITEM == "EQTYPE_PUREITEM"
EQTYPE_EXAFFINE == "EQTYPE_EXAFFINE"

VARIABLES
    \* cloog_constraint_equal_type: its arguments, locals and position
    t_constraint, t_level, type, t_i, t_pc,
    \* CloogEqualities: the two arrays, whether the table is still allocated,
    \* the isl_basic_sets on the heap, how many were ever allocated
    equal_types, equal_constraints, equal_alive, heap, nalloc,
    \* the last call on the table with its argument, what it returned (the
    \* invalid constraint for the calls that return nothing), and how the
    \* program failed, if so
    e_last, e_ret, e_fail,
    \* history: per level, the line given to the last cloog_equal_add that
    \* no cloog_equal_del followed (<<>> when there is none)
    e_added,
    \* cloog_constraint_set_defining_inequalities: bset and level, what the
    \* backend answered (whether a pair exists, *lower, upper), the value
    \* returned, and the position
    d_bset, d_level, d_has, d_lower, d_upper, d_ret, d_pc,
    \* cloog_constraint_copy_coefficients: the constraint, what was written
    \* to dst (index -> value), the position and the failure, if any
    c_constraint, c_dst, c_pc, c_fail,
    \* CloogStride: the fields, whether the storage is allocated, the last
    \* call, what it returned, and the failure, if any
    s_references, s_stride, s_offset, s_storage, s_last, s_ret, s_fail

tvars == <<t_constraint, t_level, type, t_i, t_pc>>
evars == <<equal_types, equal_constraints, equal_alive, heap, nalloc,
           e_last, e_ret, e_fail, e_added>>
dvars == <<d_bset, d_level, d_has, d_lower, d_upper, d_ret, d_pc>>
cvars == <<c_constraint, c_dst, c_pc, c_fail>>
svars == <<s_references, s_stride, s_offset, s_storage, s_last, s_ret, s_fail>>

\* What the steps of one component leave alone: the other components.
TypeFrame == UNCHANGED <<evars, dvars, cvars, svars>>
EqualFrame == UNCHANGED <<tvars, dvars, cvars, svars>>
IneqFrame == UNCHANGED <<tvars, evars, cvars, svars>>
CopyFrame == UNCHANGED <<tvars, evars, dvars, svars>>
StrideFrame == UNCHANGED <<tvars, evars, dvars, cvars>>

(***************************************************************************)
(* Helpers on sequences.                                                   *)
(***************************************************************************)
SeqsOf(S, n) == [1..n -> S]

Zeros(n) == [k \in 1..n |-> 0]

\* The vector of length n holding f[k] at the positions k of f, 0 elsewhere.
Sparse(n, f) == [k \in 1..n |-> IF k \in DOMAIN f THEN f[k] ELSE 0]

\* A row without existential dimensions.
Row(d, p, k, e) == [param |-> p, dim |-> d, div |-> <<>>, const |-> k, eq |-> e]

(***************************************************************************)
(*                     cloog_constraint_equal_type                         *)
(***************************************************************************)

\* isl_int_is_one(c) || isl_int_is_negone(c)
IsUnit(c) == c = 1 \/ c = -1

\* The variant of the test in which the tentative EQTYPE_CONSTANT of the
\* constant term is not taken as "already set".
ScanBreaksPrior(ty, c) ==
    (~IsUnit(c)) \/ ty = EQTYPE_PUREITEM \/ ty = EQTYPE_EXAFFINE

\* The test of the three loops, for a nonzero coefficient c:
\*   (!isl_int_is_one(c) && !isl_int_is_negone(c)) || type != EQTYPE_NONE
\* When it holds the type becomes EQTYPE_EXAFFINE and the loop breaks,
\* otherwise the type becomes EQTYPE_PUREITEM.
ScanBreaks(ty, c) ==
    (~IsUnit(c)) \/ ty # EQTYPE_NONE

\* The variant that skips the dimension one position too far.
SkipDimOffByOne(idx, lvl) == idx = lvl

\* if (i == level - 1) continue;   (idx is the 0-based C index)
SkipDim(idx, lvl) == idx = lvl - 1

\* One for loop over the coefficients cs, from 0-based index idx on; isdim
\* tells the loop over the dimensions, the only one that skips level-1.
RECURSIVE ScanLoop(_, _, _, _, _)
ScanLoop(ty, cs, isdim, lvl, idx) ==
    IF idx >= Len(cs) THEN ty
    ELSE IF isdim /\ SkipDim(idx, lvl) THEN ScanLoop(ty, cs, isdim, lvl, idx + 1)
    ELSE IF cs[idx + 1] = 0 THEN ScanLoop(ty, cs, isdim, lvl, idx + 1)
    ELSE IF ScanBreaks(ty, cs[idx + 1]) THEN EQTYPE_EXAFFINE
    ELSE ScanLoop(EQTYPE_PUREITEM, cs, isdim, lvl, idx + 1)

\* The whole function, as the equality table calls it.
cloog_constraint_equal_type(c, lvl) ==
    LET t0 == IF c.const # 0 THEN EQTYPE_CONSTANT ELSE EQTYPE_NONE
        t1 == ScanLoop(t0, c.param, FALSE, lvl, 0)
        t2 == ScanLoop(t1, c.dim, TRUE, lvl, 0)
        t3 == ScanLoop(t2, c.div, FALSE, lvl, 0)
    IN  IF t3 = EQTYPE_NONE THEN EQTYPE_CONSTANT ELSE t3

\* The rows the scan is run on.
TypeRows ==
    [param : SeqsOf(Coefs, NbParam), dim : SeqsOf(Coefs, NbDim),
     div : SeqsOf(Coefs, NbDiv), const : ConstVals, eq : {TRUE}]

TypeInit ==
    /\ t_constraint \in TypeRows
    /\ t_level \in 1..NbDim
    /\ type = EQTYPE_NONE
    /\ t_i = 0
    /\ t_pc = "constant"

\* Lines 186-188: the constant term.
TypeConstant ==
    /\ t_pc = "constant"
    /\ type' = IF t_constraint.const # 0 THEN EQTYPE_CONSTANT ELSE type
    /\ t_pc' = "param"
    /\ t_i' = 0
    /\ UNCHANGED <<t_constraint, t_level>>
    /\ TypeFrame

\* One iteration (or the exit) of a loop over the coefficients cs; the
\* loop that follows is at program counter next.
LoopStep(cs, isdim, next) ==
    IF t_i >= Len(cs)
    THEN /\ t_pc' = next /\ t_i' = 0 /\ type' = type
    ELSE IF (isdim /\ SkipDim(t_i, t_level)) \/ cs[t_i + 1] = 0
    THEN /\ t_pc' = t_pc /\ t_i' = t_i + 1 /\ type' = type
    ELSE IF ScanBreaks(type, cs[t_i + 1])
    THEN /\ type' = EQTYPE_EXAFFINE /\ t_pc' = next /\ t_i' = 0
    ELSE /\ type' = EQTYPE_PUREITEM /\ t_pc' = t_pc /\ t_i' = t_i + 1

\* Lines 189-199.
TypeParam ==
    /\ t_pc = "param"
    /\ LoopStep(t_constraint.param, FALSE, "dim")
    /\ UNCHANGED <<t_constraint, t_level>>
    /\ TypeFrame

\* Lines 200-212.
TypeDim ==
    /\ t_pc = "dim"
    /\ LoopStep(t_constraint.dim, TRUE, "div")
    /\ UNCHANGED <<t_constraint, t_level>>
    /\ TypeFrame

\* Lines 213-223.
TypeDiv ==
    /\ t_pc = "div"
    /\ LoopStep(t_constraint.div, FALSE, "end")
    /\ UNCHANGED <<t_constraint, t_level>>
    /\ TypeFrame

\* Lines 226-229.
TypeReturn ==
    /\ t_pc = "end"
    /\ type' = IF type = EQTYPE_NONE THEN EQTYPE_CONSTANT ELSE type
    /\ t_pc' = "done"
    /\ UNCHANGED <<t_constraint, t_level, t_i>>
    /\ TypeFrame

TypeNext == TypeConstant \/ TypeParam \/ TypeDim \/ TypeDiv \/ TypeReturn

TypeIdle ==
    /\ t_constraint = Row(Zeros(NbDim), Zeros(NbParam), 0, TRUE)
    /\ t_level = 1
    /\ type = EQTYPE_NONE
    /\ t_i = 0
    /\ t_pc = "idle"

(***************************************************************************)
(*                           The equality table                            *)
(***************************************************************************)

\* The arguments of cloog_equal_alloc(n, nb_levels, nb_parameters): the
\* caller has one level per dimension plus one, and passes n = total_dim.
nb_levels == NbDim + 1
nb_parameters == NbParam
equal_total_dim == nb_levels - 1 + nb_parameters
equal_n == equal_total_dim

NULL == 0

\* The invalid constraint, and the first constraint of the set at p.
cloog_constraint_invalid == [set |-> NULL, line |-> 0]
FirstConstraint(p) == [set |-> p, line |-> 1]

\* The lines cloog_equal_add is given: the equalities of the comment of
\* cloog_constraint_equal_type, over the dimensions i (first), j (second)
\* and the parameter M (first), and one equality of a set with one dimension
\* less, which cloog_equal_add has to extend.
EqualLines ==
    { Row(Sparse(NbDim, 1 :> 1), Zeros(NbParam), 13, TRUE),                 \* i = -13
      Row(Sparse(NbDim, 1 :> 1 @@ 2 :> -1), Zeros(NbParam), 0, TRUE),       \* i = j
      Row(Sparse(NbDim, 2 :> 1), Sparse(NbParam, 1 :> 1), 0, TRUE),         \* j = -M
      Row(Sparse(NbDim, 2 :> 1), Sparse(NbParam, 1 :> -2), 0, TRUE),        \* j = 2*M
      Row(Sparse(NbDim, 1 :> 1 @@ 2 :> -1), Zeros(NbParam), -1, TRUE),      \* i = j+1
      Row(Sparse(NbDim - 1, 1 :> 1), Sparse(NbParam, 1 :> -1), 0, TRUE) }   \* i = M

\* isl_basic_set_from_constraint(line): the set holding that row alone.
isl_basic_set_from_constraint(line) ==
    [nparam |-> Len(line.param), dim |-> Len(line.dim), rows |-> <<line>>]

\* isl_basic_set_extend(bset, nparam, dim, 0, 0, 0): the same rows over
\* dim dimensions, the new ones with coefficient 0.
isl_basic_set_extend(bset, nparam, dim) ==
    [nparam |-> nparam, dim |-> dim,
     rows |-> [k \in 1..Len(bset.rows) |->
                 [bset.rows[k] EXCEPT !.dim = @ \o Zeros(dim - bset.dim)]]]

\* isl_basic_set_free(p): NULL is accepted (cloog_equal_free passes every
\* slot, empty ones included); the set at p leaves the heap.
isl_basic_set_free(h, p) ==
    [q \in DOMAIN h \ {p} |-> h[q]]

\* Freeing a pointer that is neither NULL nor allocated.
FreeFails(h, p) == p # NULL /\ p \notin DOMAIN h

\* The private set cloog_equal_add builds (lines 261-263).
EqualBset(line) ==
    LET bset == isl_basic_set_from_constraint(line)
    IN  isl_basic_set_extend(bset, bset.nparam, equal_total_dim - bset.nparam)

\* int cloog_equal_type(equal, level)
cloog_equal_type(lvl) == equal_types[lvl - 1]

\* int cloog_equal_count(equal)
cloog_equal_count == equal_n

\* int cloog_equal_total_dimension(equal)
cloog_equal_total_dimension == equal_total_dim

\* The state cloog_equal_alloc returns.
EqualInit ==
    /\ equal_types = [k \in 0..equal_n - 1 |-> EQTYPE_NONE]
    /\ equal_constraints = [k \in 0..equal_n - 1 |-> NULL]
    /\ equal_alive = TRUE
    /\ heap = << >>
    /\ nalloc = 0
    /\ e_last = [op |-> "alloc", arg |-> equal_n]
    /\ e_ret = cloog_constraint_invalid
    /\ e_fail = "none"
    /\ e_added = [l \in 1..equal_n |-> << >>]

EqualIdle == EqualInit

\* The variant that classifies for the slot index instead of the level.
AddTypesSlotIndex(types, lvl, line) ==
    [types EXCEPT ![lvl - 1] = cloog_constraint_equal_type(line, lvl - 1)]

\* equal->types[level-1] = cloog_constraint_equal_type(line, level);
AddTypes(types, lvl, line) ==
    [types EXCEPT ![lvl - 1] = cloog_constraint_equal_type(line, lvl)]

\* equal->constraints[level-1] = bset;
AddConstraints(cons, lvl, p) == [cons EXCEPT ![lvl - 1] = p]

\* The variant that leaves the tag of the slot in place.
DelTypesKept(types, lvl) == types

\* equal->types[level-1] = EQTYPE_NONE;
DelTypes(types, lvl) == [types EXCEPT ![lvl - 1] = EQTYPE_NONE]

\* The variant that leaves the freed pointer in the slot.
DelConstraintsKept(cons, lvl) == cons

\* equal->constraints[level-1] = NULL;
DelConstraints(cons, lvl) == [cons EXCEPT ![lvl - 1] = NULL]

\* The variant that reads the slot after the one asked for.
EqualSlotNext(cons, j) == cons[(j + 1) % equal_n]

\* equal->constraints[j]
EqualSlot(cons, j) == cons[j]

Running == equal_alive /\ e_fail = "none"

\* cloog_equal_add(equal, matrix, level, line, nb_par) with a valid line.
EqualAdd(lvl, line) ==
    /\ Running
    /\ nalloc < MaxAllocs
    /\ LET p == nalloc + 1
       IN  /\ equal_types' = AddTypes(equal_types, lvl, line)
           /\ heap' = [q \in DOMAIN heap \cup {p} |->
                          IF q = p THEN EqualBset(line) ELSE heap[q]]
           /\ equal_constraints' = AddConstraints(equal_constraints, lvl, p)
           /\ nalloc' = p
    /\ e_last' = [op |-> "add", arg |-> lvl]
    /\ e_added' = [e_added EXCEPT ![lvl] = <<line>>]
    /\ e_ret' = cloog_constraint_invalid
    /\ UNCHANGED <<equal_alive, e_fail>>
    /\ EqualFrame

\* cloog_equal_add with the invalid constraint: the assertion of line 258.
EqualAddInvalid(lvl) ==
    /\ Running
    /\ e_fail' = "assert"
    /\ e_last' = [op |-> "add", arg |-> lvl]
    /\ e_ret' = cloog_constraint_invalid
    /\ UNCHANGED <<equal_types, equal_constraints, equal_alive, heap, nalloc,
                   e_added>>
    /\ EqualFrame

\* cloog_equal_del(equal, level)
EqualDel(lvl) ==
    /\ Running
    /\ equal_types' = DelTypes(equal_types, lvl)
    /\ heap' = isl_basic_set_free(heap, equal_constraints[lvl - 1])
    /\ e_fail' = IF FreeFails(heap, equal_constraints[lvl - 1])
                 THEN "double_free" ELSE e_fail
    /\ equal_constraints' = DelConstraints(equal_constraints, lvl)
    /\ e_last' = [op |-> "del", arg |-> lvl]
    /\ e_added' = [e_added EXCEPT ![lvl] = << >>]
    /\ e_ret' = cloog_constraint_invalid
    /\ UNCHANGED <<equal_alive, nalloc>>
    /\ EqualFrame

\* cloog_equal_constraint(equal, j): the first constraint of the set of
\* slot j.  For an empty slot the backend is handed NULL: it answers with
\* the invalid constraint or fails.
EqualConstraint(j) ==
    /\ Running
    /\ LET p == EqualSlot(equal_constraints, j)
       IN  \/ /\ p # NULL
              /\ e_ret' = FirstConstraint(p)
              /\ e_fail' = e_fail
           \/ /\ p = NULL
              /\ e_ret' = cloog_constraint_invalid
              /\ e_fail' \in {e_fail, "null_set"}
    /\ e_last' = [op |-> "constraint", arg |-> j]
    /\ UNCHANGED <<equal_types, equal_constraints, equal_alive, heap, nalloc,
                   e_added>>
    /\ EqualFrame

\* The pointers of all slots, and whether freeing them one by one fails.
SlotPointers(cons) == {cons[k] : k \in DOMAIN cons} \ {NULL}

FreeAllFails(h, cons) ==
    \/ \E k \in DOMAIN cons : FreeFails(h, cons[k])
    \/ \E k, m \in DOMAIN cons : k # m /\ cons[k] # NULL /\ cons[k] = cons[m]

\* cloog_equal_free(equal)
EqualFree ==
    /\ Running
    /\ heap' = [q \in DOMAIN heap \ SlotPointers(equal_constraints) |-> heap[q]]
    /\ e_fail' = IF FreeAllFails(heap, equal_constraints)
                 THEN "double_free" ELSE e_fail
    /\ equal_alive' = FALSE
    /\ e_last' = [op |-> "free", arg |-> 0]
    /\ e_ret' = cloog_constraint_invalid
    /\ UNCHANGED <<equal_types, equal_constraints, nalloc, e_added>>
    /\ EqualFrame

EqualNext ==
    \/ \E lvl \in 1..equal_n, line \in EqualLines : EqualAdd(lvl, line)
    \/ \E lvl \in 1..equal_n : EqualAddInvalid(lvl)
    \/ \E lvl \in 1..equal_n : EqualDel(lvl)
    \/ \E j \in 0..equal_n - 1 : EqualConstraint(j)
    \/ EqualFree

(***************************************************************************)
(*                            Row accessors                                *)
(***************************************************************************)

\* The variant that addresses the parameters before the dimensions.
coefficient_get_params_first(constraint, var) ==
    IF var < Len(constraint.param)
    THEN constraint.param[var + 1]
    ELSE constraint.dim[var - Len(constraint.param) + 1]

\* cloog_constraint_coefficient_get(constraint, var, &val): var is 0-based,
\* dimensions first, then parameters.
cloog_constraint_coefficient_get(constraint, var) ==
    IF var < Len(constraint.dim)
    THEN constraint.dim[var + 1]
    ELSE constraint.param[var - Len(constraint.dim) + 1]

\* cloog_constraint_constant_get(constraint, &val)
cloog_constraint_constant_get(constraint) == constraint.const

\* The variant that looks at the variable after v.
cloog_constraint_involves_next(constraint, v) ==
    cloog_constraint_coefficient_get(constraint, v + 1) # 0

\* cloog_constraint_involves(constraint, v)
cloog_constraint_involves(constraint, v) ==
    cloog_constraint_coefficient_get(constraint, v) # 0

\* cloog_constraint_is_lower_bound(constraint, v)
cloog_constraint_is_lower_bound(constraint, v) ==
    cloog_constraint_coefficient_get(constraint, v) > 0

\* cloog_constraint_is_upper_bound(constraint, v)
cloog_constraint_is_upper_bound(constraint, v) ==
    cloog_constraint_coefficient_get(constraint, v) < 0

\* cloog_constraint_is_equality(constraint)
cloog_constraint_is_equality(constraint) == constraint.eq

\* cloog_constraint_set_total_dimension(constraints), once its assertion
\* n_div == 0 has passed.
cloog_constraint_set_total_dimension(constraint) ==
    Len(constraint.param) + Len(constraint.dim)

(***************************************************************************)
(*              cloog_constraint_set_defining_inequalities                 *)
(***************************************************************************)

\* Constraints of a set are named by their row number, 1..Len(bset); 0 is
\* the invalid constraint.
InvalidRow == 0

\* The pairs the backend may report for the variable at 0-based position
\* pos (comment of lines 54-60): inequalities
\*      <a, i> + -m e +  <b, p> + k1 >= 0      (upper)
\*     <-a, i> +  m e + <-b, p> + k2 >= 0      (lower)
\* with 0 <= k1 + k2 < m.
IsDefiningPair(lo, up, pos) ==
    /\ ~lo.eq /\ ~up.eq
    /\ Len(lo.dim) = Len(up.dim) /\ Len(lo.param) = Len(up.param)
    /\ lo.dim[pos + 1] > 0
    /\ \A k \in 1..Len(lo.dim) : up.dim[k] = -lo.dim[k]
    /\ \A k \in 1..Len(lo.param) : up.param[k] = -lo.param[k]
    /\ 0 <= lo.const + up.const
    /\ lo.const + up.const < lo.dim[pos + 1]

DefiningPairs(bset, pos) ==
    { pr \in (1..Len(bset)) \X (1..Len(bset)) :
        pr[1] # pr[2] /\ IsDefiningPair(bset[pr[1]], bset[pr[2]], pos) }

\* isl_basic_set_has_defining_inequalities(bset, pos, lower, &upper): what
\* it may answer.  It reports one of the pairs, or none.
BackendAnswers(bset, pos) ==
    {[has |-> FALSE, lower |-> InvalidRow, upper |-> InvalidRow]}
    \cup {[has |-> TRUE, lower |-> pr[1], upper |-> pr[2]] :
            pr \in DefiningPairs(bset, pos)}

\* The loop of lines 78-87 from row c on: TRUE when it returns the invalid
\* constraint, FALSE when it runs to the end.
RECURSIVE OtherRowInvolves(_, _, _, _, _)
OtherRowInvolves(bset, lvl, lower, upper, c) ==
    IF c > Len(bset) THEN FALSE
    ELSE IF c = lower THEN OtherRowInvolves(bset, lvl, lower, upper, c + 1)
    ELSE IF c = upper THEN OtherRowInvolves(bset, lvl, lower, upper, c + 1)
    ELSE IF cloog_constraint_involves(bset[c], lvl - 1) THEN TRUE
    ELSE OtherRowInvolves(bset, lvl, lower, upper, c + 1)

\* The rows of the sets searched, over the dimensions x (first) and e
\* (second) and the parameter M (first).
IneqRows ==
    { Row(Sparse(NbDim, 1 :> 1 @@ 2 :> -2), Zeros(NbParam), k, FALSE) : k \in {0, 1, 2} }
    \cup
    { Row(Sparse(NbDim, 1 :> -1 @@ 2 :> 2), Zeros(NbParam), k, FALSE) : k \in {0, 1} }
    \cup
    { Row(Sparse(NbDim, 1 :> 1), Zeros(NbParam), 1, FALSE),                \* x + 1 >= 0
      Row(Sparse(NbDim, 1 :> 1), Sparse(NbParam, 1 :> -1), 0, TRUE),       \* x = M
      Row(Sparse(NbDim, 2 :> 1), Sparse(NbParam, 1 :> -1), 0, TRUE),       \* e = M
      Row(Sparse(NbDim, 1 :> 1 @@ 2 :> 1), Zeros(NbParam), -5, FALSE) }    \* e + x >= 5

IneqInit ==
    /\ d_bset \in UNION {SeqsOf(IneqRows, n) : n \in 2..MaxRows}
    /\ d_level \in 1..2
    /\ d_has = FALSE
    /\ d_lower = InvalidRow
    /\ d_upper = InvalidRow
    /\ d_ret = InvalidRow
    /\ d_pc = "call"

IneqIdle ==
    /\ d_bset = << >>
    /\ d_level = 1
    /\ d_has = FALSE
    /\ d_lower = InvalidRow
    /\ d_upper = InvalidRow
    /\ d_ret = InvalidRow
    /\ d_pc = "idle"

\* cloog_constraint_set_defining_inequalities(bset, level, lower, nb_par)
DefiningInequalities ==
    /\ d_pc = "call"
    /\ \E ans \in BackendAnswers(d_bset, d_level - 1) :
          /\ d_has' = ans.has
          /\ d_lower' = ans.lower
          /\ d_upper' = ans.upper
          /\ d_ret' = IF ~ans.has THEN InvalidRow
                      ELSE IF OtherRowInvolves(d_bset, d_level, ans.lower, ans.upper, 1)
                      THEN InvalidRow
                      ELSE ans.upper
    /\ d_pc' = "done"
    /\ UNCHANGED <<d_bset, d_level>>
    /\ IneqFrame

IneqNext == DefiningInequalities

(***************************************************************************)
(*                  cloog_constraint_copy_coefficients                     *)
(***************************************************************************)

\* Values of the coefficients copied.
CopyVals == {-1, 2, 3, 5}

CopyInit ==
    /\ c_constraint \in
         [param : SeqsOf(CopyVals, NbParam), dim : SeqsOf(CopyVals, NbDim),
          div : {<< >>, <<1>>}, const : CopyVals, eq : {TRUE}]
    /\ c_dst = << >>
    /\ c_pc = "call"
    /\ c_fail = "none"

CopyIdle ==
    /\ c_constraint = Row(Zeros(NbDim), Zeros(NbParam), 0, TRUE)
    /\ c_dst = << >>
    /\ c_pc = "idle"
    /\ c_fail = "none"

\* What lines 447-449 write: dst[i] for i < dim, then dst[dim].
CopiedCoefficients(constraint) ==
    LET dim == cloog_constraint_set_total_dimension(constraint)
    IN  [k \in 0..dim |->
           IF k < dim THEN cloog_constraint_coefficient_get(constraint, k)
           ELSE cloog_constraint_constant_get(constraint)]

\* cloog_constraint_copy_coefficients(constraint, dst); the assertion is
\* that of cloog_constraint_set_total_dimension (line 93).
CopyCoefficients ==
    /\ c_pc = "call"
    /\ IF Len(c_constraint.div) # 0
       THEN /\ c_fail' = "assert"
            /\ c_dst' = c_dst
       ELSE /\ c_dst' = CopiedCoefficients(c_constraint)
            /\ c_fail' = c_fail
    /\ c_pc' = "done"
    /\ UNCHANGED c_constraint
    /\ CopyFrame

CopyNext == CopyCoefficients

(***************************************************************************)
(*                              CloogStride                                *)
(***************************************************************************)

StrideVals == {1, 2, 3, 4}
OffsetVals == {0, 1, 2, 3}

\* The one descriptor of the model.
StridePtr == "stride"

\* cloog_stride_alloc(stride, offset): the state it returns.
StrideInit ==
    /\ s_stride \in StrideVals
    /\ s_offset \in OffsetVals
    /\ s_references = 1
    /\ s_storage = "allocated"
    /\ s_last = "alloc"
    /\ s_ret = StridePtr
    /\ s_fail = "none"

StrideIdle ==
    /\ s_stride = 1
    /\ s_offset = 0
    /\ s_references = 0
    /\ s_storage = "none"
    /\ s_last = "none"
    /\ s_ret = "none"
    /\ s_fail = "none"

\* The variant that frees the storage one holder early.
StrideReleasedEarly(references) == references <= 1

\* Whether cloog_stride_free, having decremented the count, frees the
\* storage.
StrideReleased(references) == references = 0

\* cloog_stride_copy(stride)
StrideCopy ==
    /\ s_storage = "allocated"
    /\ s_fail = "none"
    /\ s_references < MaxRefs
    /\ s_references' = s_references + 1
    /\ s_ret' = StridePtr
    /\ s_last' = "copy"
    /\ UNCHANGED <<s_stride, s_offset, s_storage, s_fail>>
    /\ StrideFrame

\* cloog_stride_free(stride) while the storage is allocated.
StrideFree ==
    /\ s_storage = "allocated"
    /\ s_fail = "none"
    /\ s_references' = s_references - 1
    /\ s_storage' = IF StrideReleased(s_references - 1) THEN "freed" ELSE s_storage
    /\ s_last' = "free"
    /\ UNCHANGED <<s_stride, s_offset, s_ret, s_fail>>
    /\ StrideFrame

\* cloog_stride_free(stride) after the storage was freed.
StrideFreeAgain ==
    /\ s_storage = "freed"
    /\ s_fail = "none"
    /\ s_fail' = "double_release"
    /\ s_last' = "free"
    /\ UNCHANGED <<s_stride, s_offset, s_references, s_storage, s_ret>>
    /\ StrideFrame

StrideNext == StrideCopy \/ StrideFree \/ StrideFreeAgain

(***************************************************************************)
(*                           Specifications                                *)
(***************************************************************************)

vars == <<tvars, evars, dvars, cvars, svars>>

InitType == TypeInit /\ EqualIdle /\ IneqIdle /\ CopyIdle /\ StrideIdle
SpecType == InitType /\ [][TypeNext]_vars

InitEqual == EqualInit /\ TypeIdle /\ IneqIdle /\ CopyIdle /\ StrideIdle
Spec == InitEqual /\ [][EqualNext]_vars

InitIneq == IneqInit /\ TypeIdle /\ EqualIdle /\ CopyIdle /\ StrideIdle
SpecIneq == InitIneq /\ [][IneqNext]_vars

InitCopy == CopyInit /\ TypeIdle /\ EqualIdle /\ IneqIdle /\ StrideIdle
SpecCopy == InitCopy /\ [][CopyNext]_vars

InitStride == StrideInit /\ TypeIdle /\ EqualIdle /\ IneqIdle /\ CopyIdle
SpecStride == InitStride /\ [][StrideNext]_vars

(***************************************************************************)
(*                              Properties                                 *)
(***************************************************************************)

\* The coefficients cloog_constraint_equal_type looks at: parameters,
\* dimensions with the one of the level set aside (0), existentials.
OtherCoefs(c, lvl) ==
    c.param \o [k \in 1..Len(c.dim) |-> IF k = lvl THEN 0 ELSE c.dim[k]] \o c.div

NonzeroAt(cs) == {k \in 1..Len(cs) : cs[k] # 0}

\* Constant zero and exactly one other coefficient nonzero, a unit.
IsPureItem(c, lvl) ==
    LET o == OtherCoefs(c, lvl)
    IN  /\ c.const = 0
        /\ Cardinality(NonzeroAt(o)) = 1
        /\ \A k \in NonzeroAt(o) : IsUnit(o[k])

\* C1: the result of cloog_constraint_equal_type is CONSTANT iff every
\* coefficient other than the one of the level is zero (whatever the
\* constant), PURE_ITEM iff the constant is zero and exactly one such
\* coefficient is nonzero and is +1 or -1, AFFINE in every other case; it is
\* never NONE and does not depend on the coefficient of the level.
C1_Classification ==
    t_pc = "done" =>
       LET nz == NonzeroAt(OtherCoefs(t_constraint, t_level))
           pure == IsPureItem(t_constraint, t_level)
       IN  /\ type # EQTYPE_NONE
           /\ type = EQTYPE_CONSTANT <=> nz = {}
           /\ type = EQTYPE_PUREITEM <=> pure
           /\ type = EQTYPE_EXAFFINE <=> (nz # {} /\ ~pure)
           /\ \A v \in Coefs :
                 cloog_constraint_equal_type(
                     [t_constraint EXCEPT !.dim[t_level] = v], t_level) = type

\* A pure item whose level coefficient is neither zero nor a unit.
C1_Witness ==
    /\ t_pc = "done"
    /\ type = EQTYPE_PUREITEM
    /\ t_constraint.dim[t_level] = 2

\* The scan is about to test a coefficient (not skipped, not past the end).
ScanAt(cs, isdim) ==
    /\ t_i < Len(cs)
    /\ ~(isdim /\ SkipDim(t_i, t_level))

\* The coefficient the scan is at, when it is at one.
AtCoef ==
    \/ t_pc = "param" /\ ScanAt(t_constraint.param, FALSE)
    \/ t_pc = "dim" /\ ScanAt(t_constraint.dim, TRUE)
    \/ t_pc = "div" /\ ScanAt(t_constraint.div, FALSE)

CurCoef ==
    IF t_pc = "param" THEN t_constraint.param[t_i + 1]
    ELSE IF t_pc = "dim" THEN t_constraint.dim[t_i + 1]
    ELSE t_constraint.div[t_i + 1]

\* A nonzero coefficient was met earlier in the scan.  (A loop is left early
\* only at a nonzero coefficient, so a nonzero coefficient of an earlier
\* loop means one was met there.)
SeenNonzero ==
    LET c == t_constraint
        before(cs, isdim) ==
            \E k \in 1..Len(cs) :
               k <= t_i /\ cs[k] # 0 /\ ~(isdim /\ SkipDim(k - 1, t_level))
        all(cs, isdim) ==
            \E k \in 1..Len(cs) : cs[k] # 0 /\ ~(isdim /\ SkipDim(k - 1, t_level))
    IN  IF t_pc = "param" THEN before(c.param, FALSE)
        ELSE IF t_pc = "dim" THEN all(c.param, FALSE) \/ before(c.dim, TRUE)
        ELSE all(c.param, FALSE) \/ all(c.dim, TRUE) \/ before(c.div, FALSE)

\* C9 as claimed: a coefficient +1 or -1 makes the tag AFFINE only if a
\* nonzero coefficient was met earlier in the scan, and PURE_ITEM otherwise,
\* also when the constant term is nonzero.
C9_PriorCoefficientOnly ==
    [][(AtCoef /\ IsUnit(CurCoef)) =>
          /\ type' = EQTYPE_EXAFFINE <=> SeenNonzero
          /\ type' = EQTYPE_PUREITEM <=> ~SeenNonzero]_vars

\* C9, amended: the tentative CONSTANT of a nonzero constant term counts as
\* already set.  A coefficient +1 or -1 makes the tag PURE_ITEM only if the
\* constant term is zero and no nonzero coefficient was met earlier, and
\* AFFINE otherwise.
C9_ConstantCounts ==
    [][(AtCoef /\ IsUnit(CurCoef)) =>
          /\ type' = EQTYPE_PUREITEM <=> (t_constraint.const = 0 /\ ~SeenNonzero)
          /\ type' = EQTYPE_EXAFFINE <=> (t_constraint.const # 0 \/ SeenNonzero)]_vars

\* A nonzero constant, one nonzero coefficient, a unit, met first: AFFINE.
C9_Witness ==
    /\ t_pc = "done"
    /\ t_constraint.const # 0
    /\ LET o == OtherCoefs(t_constraint, t_level)
       IN  /\ Cardinality(NonzeroAt(o)) = 1
           /\ \A k \in NonzeroAt(o) : IsUnit(o[k])
    /\ type = EQTYPE_EXAFFINE

Levels == 1..equal_n

\* C2: for every level L, cloog_equal_type(L) is the classification of the
\* line of the last cloog_equal_add at L that no cloog_equal_del at L
\* followed, and NONE when there is none; cloog_equal_add and cloog_equal_del
\* at another level leave it as it is.
C2_TypeTracksAdd ==
    /\ [](equal_alive =>
            \A L \in Levels :
               cloog_equal_type(L) =
                  IF e_added[L] = << >> THEN EQTYPE_NONE
                  ELSE cloog_constraint_equal_type(e_added[L][1], L))
    /\ [][e_last'.op \in {"add", "del"} =>
            \A L \in Levels \ {e_last'.arg} :
               equal_types'[L - 1] = equal_types[L - 1]]_vars

\* One level holds a pure item, another was added and removed again.
C2_Witness ==
    /\ equal_alive
    /\ e_last.op = "del"
    /\ nalloc >= 2
    /\ e_added[e_last.arg] = << >>
    /\ \E L \in Levels \ {e_last.arg} :
          e_added[L] # << >> /\ cloog_equal_type(L) = EQTYPE_PUREITEM

\* C3: while the table is allocated, a slot has tag NONE exactly when it
\* holds no set; a slot with another tag holds an allocated set and its tag
\* is CONSTANT, PURE_ITEM or AFFINE; after cloog_equal_alloc every slot has
\* tag NONE and no set.
C3_TagNoneIffNoSet ==
    /\ equal_alive =>
          \A k \in 0..equal_n - 1 :
             /\ equal_types[k] = EQTYPE_NONE <=> equal_constraints[k] = NULL
             /\ equal_types[k] # EQTYPE_NONE =>
                   /\ equal_types[k] \in
                         {EQTYPE_CONSTANT, EQTYPE_PUREITEM, EQTYPE_EXAFFINE}
                   /\ equal_constraints[k] \in DOMAIN heap
    /\ e_last.op = "alloc" =>
          \A k \in 0..equal_n - 1 :
             equal_types[k] = EQTYPE_NONE /\ equal_constraints[k] = NULL

\* A filled slot beside a slot emptied again.
C3_Witness ==
    /\ equal_alive
    /\ nalloc = 2
    /\ \E k, m \in 0..equal_n - 1 :
          /\ equal_types[k] = EQTYPE_EXAFFINE /\ equal_constraints[k] # NULL
          /\ equal_types[m] = EQTYPE_NONE /\ equal_constraints[m] = NULL
          /\ e_last = [op |-> "del", arg |-> m + 1]

\* C5: cloog_equal_del on an empty slot fails nothing and leaves the table
\* and the heap as they are; after any cloog_equal_del the slot is empty, so
\* a second one at the same level changes nothing.
C5_DelIdempotent ==
    [][e_last'.op = "del" =>
          LET k == e_last'.arg - 1
          IN  /\ equal_types'[k] = EQTYPE_NONE
              /\ equal_constraints'[k] = NULL
              /\ (equal_types[k] = EQTYPE_NONE /\ equal_constraints[k] = NULL) =>
                    /\ e_fail' = "none"
                    /\ equal_types' = equal_types
                    /\ equal_constraints' = equal_constraints
                    /\ heap' = heap
                    /\ equal_alive' = equal_alive]_vars

\* cloog_equal_del was called on a table nothing was ever added to.
C5_Witness ==
    /\ e_last.op = "del"
    /\ nalloc = 0
    /\ e_fail = "none"
    /\ equal_alive

\* The row a constraint names, in the heap.
HeapRow(c) == heap[c.set].rows[c.line]

\* C6 as claimed: called with the level L of a cloog_equal_add not followed
\* by a cloog_equal_del, cloog_equal_constraint returns the row stored at
\* slot L-1.
C6_RowByLevel ==
    (e_last.op = "constraint" /\ e_last.arg \in Levels /\ e_fail = "none"
        /\ e_added[e_last.arg] # << >>) =>
       /\ e_ret.set # NULL
       /\ e_ret.set = equal_constraints[e_last.arg - 1]
       /\ HeapRow(e_ret) = EqualBset(e_added[e_last.arg][1]).rows[1]

\* C6, amended: cloog_equal_constraint takes the 0-based slot index.  Called
\* with L-1 for the level L of a cloog_equal_add not followed by a
\* cloog_equal_del, it returns the row of the set stored at slot L-1: the
\* line added, extended to the dimension of the table.
C6_RowBySlot ==
    (e_last.op = "constraint" /\ e_added[e_last.arg + 1] # << >>) =>
       /\ e_fail = "none"
       /\ e_ret.set # NULL
       /\ e_ret.set = equal_constraints[e_last.arg]
       /\ e_ret.set \in DOMAIN heap
       /\ HeapRow(e_ret) = EqualBset(e_added[e_last.arg + 1][1]).rows[1]
       /\ Len(HeapRow(e_ret).dim) = equal_total_dim - Len(HeapRow(e_ret).param)

\* The row of a line that had to be extended was asked for.
C6_Witness ==
    /\ e_last.op = "constraint"
    /\ e_added[e_last.arg + 1] # << >>
    /\ Len(e_added[e_last.arg + 1][1].dim) < NbDim
    /\ e_ret.set # NULL

\* C10: every set cloog_equal_add creates is in one slot only and is freed
\* exactly once: none is allocated after cloog_equal_free, none is freed
\* twice, none is in two slots.
C10_NoLeakNoDoubleFree ==
    /\ ~equal_alive => DOMAIN heap = {}
    /\ e_fail # "double_free"
    /\ \A k, m \in 0..equal_n - 1 :
          (k # m /\ equal_constraints[k] # NULL) =>
             equal_constraints[k] # equal_constraints[m]

\* The rows of d_bset, beside the pair, that involve the level.
OtherInvolving ==
    {c \in 1..Len(d_bset) :
        /\ c # d_lower
        /\ c # d_upper
        /\ cloog_constraint_coefficient_get(d_bset[c], d_level - 1) # 0}

\* C4: cloog_constraint_set_defining_inequalities returns the invalid
\* constraint whenever a row other than the two of the pair, equalities
\* included, has a nonzero coefficient on the dimension of the level, though
\* the pair satisfies 0 <= k1 + k2 < m; when the backend finds a pair and no
\* other row involves the dimension, it returns the upper bound of the pair
\* and *lower is its lower bound.
C4_DefiningInequalities ==
    d_pc = "done" =>
       /\ ~d_has => d_ret = InvalidRow
       /\ (d_has /\ OtherInvolving # {}) => d_ret = InvalidRow
       /\ (d_has /\ OtherInvolving = {}) =>
             /\ d_ret = d_upper
             /\ d_ret # InvalidRow
             /\ d_lower # InvalidRow
             /\ IsDefiningPair(d_bset[d_lower], d_bset[d_ret], d_level - 1)
             /\ cloog_constraint_is_upper_bound(d_bset[d_ret], d_level - 1)
             /\ cloog_constraint_is_lower_bound(d_bset[d_lower], d_level - 1)

\* A pair with 0 <= k1 + k2 < m, rejected for an equality on the level.
C4_Witness ==
    /\ d_pc = "done"
    /\ d_has
    /\ IsDefiningPair(d_bset[d_lower], d_bset[d_upper], d_level - 1)
    /\ \E c \in OtherInvolving : d_bset[c].eq
    /\ d_ret = InvalidRow

\* C7: for a constraint of a set with d dimensions, p parameters and no
\* existential dimension, cloog_constraint_copy_coefficients writes exactly
\* dst[0..d+p]: the d dimension coefficients in order, then the p parameter
\* coefficients in order, then the constant.
C7_CopyOrder ==
    (c_pc = "done" /\ c_fail = "none") =>
       LET d == Len(c_constraint.dim)
           p == Len(c_constraint.param)
       IN  /\ DOMAIN c_dst = 0..d + p
           /\ \A k \in 0..d - 1 : c_dst[k] = c_constraint.dim[k + 1]
           /\ \A k \in 0..p - 1 : c_dst[d + k] = c_constraint.param[k + 1]
           /\ c_dst[d + p] = c_constraint.const

\* 2x - y + 3M + 5 = 0 was copied.
C7_Witness ==
    /\ c_pc = "done"
    /\ c_fail = "none"
    /\ c_constraint.dim[1] = 2 /\ c_constraint.dim[2] = -1
    /\ c_constraint.param[1] = 3 /\ c_constraint.const = 5
    /\ c_dst[0] = 2 /\ c_dst[Len(c_constraint.dim)] = 3

\* C8: the holder count is 1 after cloog_stride_alloc, grows by one with
\* each cloog_stride_copy, which returns the same descriptor, and shrinks by
\* one with each cloog_stride_free; the storage is freed exactly when the
\* count reaches zero, and a cloog_stride_free after that is fatal.
C8_HolderCount ==
    /\ [](/\ s_last = "alloc" => s_references = 1
          /\ s_storage = "allocated" <=> s_references > 0
          /\ s_storage = "freed" <=> s_references = 0
          /\ s_fail # "none" => s_storage = "freed")
    /\ [][/\ s_last' = "copy" =>
               /\ s_references' = s_references + 1
               /\ s_ret' = StridePtr
               /\ s_storage' = "allocated"
          /\ (s_last' = "free" /\ s_storage = "allocated") =>
               /\ s_references' = s_references - 1
               /\ s_fail' = "none"
          /\ (s_last' = "free" /\ s_storage = "freed") =>
               /\ s_fail' = "double_release"
               /\ s_references' = s_references]_vars

\* The descriptor was released after its storage was freed.
C8_Witness ==
    /\ s_storage = "freed"
    /\ s_references = 0
    /\ s_fail = "double_release"

=============================================================================
